---- MODULE Spec2Model ----
(***************************************************************************)
(* A model of the CASICS common utilities: the sharded path scheme         *)
(* (generate_path in casics.py and path.py) and the pickle cache of        *)
(* cache.py (cache_dir, cache_file, save_cached_value, cached_value), and  *)
(* the repository entries of casics.py (repo_entry, its helpers make_fork, *)
(* make_topics, make_languages, and the accessors e_path, e_summary,       *)
(* e_languages).                                                           *)
(*                                                                         *)
(* Strings of the program are sequences of one-character strings, so that  *)
(* slicing, endswith and concatenation are computed as Python computes     *)
(* them.  A pickle is a sequence of opcode tokens.                         *)
(***************************************************************************)
EXTENDS Integers, Sequences, FiniteSets, TLC

VARIABLES
    root,       \* the 'root' argument of the generate_path calls of a run
    calls,      \* the generate_path calls made so far, with their outcomes
    lookups,    \* the cache names computed so far for put and get calls
    fsDirs,     \* the directories that exist
    fsFiles,    \* the regular files that exist: path -> content (tokens)
    w,          \* each writer process: its save_cached_value call
    r,          \* the reader process: its cached_value call
    stable,     \* per cache file: the value a finished, undisturbed put left
    nGets,      \* cached_value calls started
    nFaults,    \* I/O faults the environment has injected
    defaults,   \* repo_entry.__defaults__: the list object of each list parameter
    records,    \* the entries built by repo_entry, with the arguments of the call
    ecall,      \* the last call of an accessor or helper, with its outcome
    sh,         \* a call of shell_cmd: its thread, its timer thread, the child
    fl          \* a run of the generator flatten: iterator, stack, yielded values

pathVars == <<root, calls>>
recVars == <<defaults, records, ecall>>
toolVars == <<sh, fl>>
pureVars == <<root, calls, lookups, recVars, toolVars>>
cacheVars == <<fsDirs, fsFiles, w, r, stable, nGets, nFaults>>
vars == <<root, calls, lookups, fsDirs, fsFiles, w, r, stable, nGets, nFaults,
          defaults, records, ecall, sh, fl>>

(***************************************************************************)
(* Bounds of the model.                                                    *)
(***************************************************************************)
MaxCalls == 2
MaxSmallId == 11
MaxGets == 2
MaxFaults == 1
MaxDirLen == 4
\* The buffer of the file object, in tokens: a longer pickle reaches the file
\* in several writes.
BufSize == 5

(***************************************************************************)
(* Python string helpers.                                                  *)
(***************************************************************************)
Min(a, b) == IF a < b THEN a ELSE b

\* s[a:b] for 0 <= a <= b: the slice is clipped to the string, never an error.
Slice(s, a, b) == SubSeq(s, a + 1, Min(b, Len(s)))

\* s.endswith(c) / s.startswith(c) for a one-character c.
EndsWith(s, c) == Len(s) > 0 /\ s[Len(s)] = c
StartsWith(s, c) == Len(s) > 0 /\ s[1] = c

DigitChars == <<"0", "1", "2", "3", "4", "5", "6", "7", "8", "9">>

IsDigit(c) == \E d \in 0 .. 9 : DigitChars[d + 1] = c

\* str(n) for n >= 0: the decimal digits, most significant first.
RECURSIVE Digits(_)
Digits(n) ==
    IF n < 10 THEN <<DigitChars[n + 1]>>
    ELSE Digits(n \div 10) \o <<DigitChars[(n % 10) + 1]>>

RECURSIVE Zeros(_)
Zeros(k) == IF k <= 0 THEN <<>> ELSE <<"0">> \o Zeros(k - 1)

\* The minimum field width of the format specification '{:08}'.
FormatWidth == 8

\* '{:08}'.format(n): a leading 0 in the width means sign-aware zero padding
\* to a MINIMUM width; a longer number is not cut.
\* (A faulty variant, '{}'.format(n): no padding.)
Format08NoPad(n) ==
    (IF n < 0 THEN <<"-">> ELSE <<>>) \o Digits(IF n < 0 THEN -n ELSE n)
Format08(n) ==
    LET sign == IF n < 0 THEN <<"-">> ELSE <<>>
        body == Digits(IF n < 0 THEN -n ELSE n)
    IN  sign \o Zeros(FormatWidth - Len(sign) - Len(body)) \o body

\* posixpath.join(a, p) for one component p.
Join2(a, p) ==
    IF StartsWith(p, "/") THEN p
    ELSE IF a = <<>> \/ EndsWith(a, "/") THEN a \o p
    ELSE a \o <<"/">> \o p

\* os.path.join(a, p1, ..., pn), parts = <<p1, ..., pn>>.
RECURSIVE JoinPath(_, _)
JoinPath(a, parts) ==
    IF parts = <<>> THEN a
    ELSE JoinPath(Join2(a, Head(parts)), Tail(parts))

\* int(repo_id) for an integer argument.
IntOf(repo_id) == repo_id

(***************************************************************************)
(* generate_path, as in casics.py and, verbatim again, in path.py.  The    *)
(* outcome of a call is the exception raised ("none" for a normal return)  *)
(* and the value returned.                                                 *)
(***************************************************************************)
NoValue == <<"<no value>">>

Returned(v) == [raised |-> "none", value |-> v]
Raised(e) == [raised |-> e, value |-> NoValue]

generate_path(rt, repo_id) ==
    LET s == Format08(IntOf(repo_id))
    IN  Returned(JoinPath(rt, <<Slice(s, 0, 2), Slice(s, 2, 4),
                                Slice(s, 4, 6), Slice(s, 6, 8)>>))

\* (A copy that has drifted: it joins the four pairs without the root.)
generate_path_rootless(rt, repo_id) ==
    LET s == Format08(IntOf(repo_id))
    IN  Returned(JoinPath(<<>>, <<Slice(s, 0, 2), Slice(s, 2, 4),
                                  Slice(s, 4, 6), Slice(s, 6, 8)>>))

path_generate_path(rt, repo_id) ==
    LET s == Format08(IntOf(repo_id))
    IN  Returned(JoinPath(rt, <<Slice(s, 0, 2), Slice(s, 2, 4),
                                Slice(s, 4, 6), Slice(s, 6, 8)>>))

(***************************************************************************)
(* cache.py: the names of the cache directory and of a cache file.         *)
(***************************************************************************)
CacheSuffix == <<".", "c", "a", "s", "i", "c", "s", "_", "c", "a", "c", "h", "e">>
PickleSuffix == <<".", "p", "i", "c", "k", "l", "e">>

\* (A faulty variant of cache_dir that keeps a trailing separator.)
cache_dir_nostrip(orig_dir) == orig_dir \o CacheSuffix
cache_dir(orig_dir) ==
    LET path == IF EndsWith(orig_dir, "/")
                THEN Slice(orig_dir, 0, Len(orig_dir) - 1)
                ELSE orig_dir
    IN  path \o CacheSuffix

cache_file(orig_dir, cache_name) ==
    LET file == cache_name \o PickleSuffix
    IN  JoinPath(cache_dir(orig_dir), <<file>>)

(***************************************************************************)
(* Python values and their pickles.  A value is a sequence of strings:     *)
(* <<"None">>, <<"int", d>>, <<"list", d1, ..., dn>> (a list of ints), or  *)
(* an object pickle cannot serialize.  A pickle is the opcode stream       *)
(* PROTO ... STOP, one token per opcode or argument.                       *)
(***************************************************************************)
None == <<"None">>
\* An object pickle cannot serialize: pickle.dump raises pickle.PicklingError
\* for some such objects (a lambda) and TypeError for others (a generator).
Unpicklable == <<"unpicklable">>

Picklable(v) == v[1] \in {"None", "int", "list"}

RECURSIVE PickleItems(_)
PickleItems(ds) ==
    IF ds = <<>> THEN <<>>
    ELSE <<"BININT1", Head(ds)>> \o PickleItems(Tail(ds))

\* The opcode stream of a picklable v.
PickleOps(v) ==
    <<"PROTO">> \o
    (CASE v[1] = "None" -> <<"NONE">>
       [] v[1] = "int"  -> <<"BININT1", v[2]>>
       [] v[1] = "list" ->
            IF Len(v) = 1 THEN <<"EMPTY_LIST">>
            ELSE <<"EMPTY_LIST", "MARK">> \o PickleItems(Tail(v)) \o <<"APPENDS">>)
    \o <<"STOP">>

\* What pickle.dump(v, file) hands to the file object for a picklable v.
\* (PickleCut is a faulty variant that loses what does not fit one buffer.)
PickleCut(v) == SubSeq(PickleOps(v), 1, Min(BufSize, Len(PickleOps(v))))
Pickle(v) == PickleOps(v)

\* The exceptions pickle.dump can raise for an unpicklable object.
DumpErrors == {"PicklingError", "TypeError"}

Mark == <<"MARK">>

\* The index of the topmost MARK of the stack, 0 when there is none.
RECURSIVE TopMark(_)
TopMark(st) ==
    IF st = <<>> THEN 0
    ELSE IF st[Len(st)] = Mark THEN Len(st)
    ELSE TopMark(SubSeq(st, 1, Len(st) - 1))

\* The items above the mark, appended to a list.
RECURSIVE Extend(_, _)
Extend(lst, items) ==
    IF items = <<>> THEN lst
    ELSE Extend(lst \o Tail(Head(items)), Tail(items))

\* The unpickling machine at token i of t with stack st: the value STOP pops,
\* or the exception raised (EOFError at the end of the data, UnpicklingError
\* at what is no opcode or does not fit the stack).
RECURSIVE Load(_, _, _)
Load(t, i, st) ==
    IF i > Len(t) THEN Raised("EOFError")
    ELSE
      CASE t[i] = "PROTO" -> Load(t, i + 1, st)
        [] t[i] = "NONE" -> Load(t, i + 1, Append(st, None))
        [] t[i] = "BININT1" ->
             IF i + 1 > Len(t) THEN Raised("EOFError")
             ELSE IF ~IsDigit(t[i + 1]) THEN Raised("UnpicklingError")
             ELSE Load(t, i + 2, Append(st, <<"int", t[i + 1]>>))
        [] t[i] = "EMPTY_LIST" -> Load(t, i + 1, Append(st, <<"list">>))
        [] t[i] = "MARK" -> Load(t, i + 1, Append(st, Mark))
        [] t[i] = "APPENDS" ->
             LET m == TopMark(st)
             IN  IF m < 2 \/ st[m - 1][1] # "list"
                    \/ \E j \in m + 1 .. Len(st) : st[j][1] # "int"
                 THEN Raised("UnpicklingError")
                 ELSE Load(t, i + 1,
                           Append(SubSeq(st, 1, m - 2),
                                  Extend(st[m - 1], SubSeq(st, m + 1, Len(st)))))
        [] t[i] = "STOP" ->
             IF st = <<>> \/ st[Len(st)] = Mark THEN Raised("UnpicklingError")
             ELSE Returned(st[Len(st)])
        [] OTHER -> Raised("UnpicklingError")

\* pickle.load(file) on a file whose content is t: what follows STOP is not read.
Unpickle(t) == Load(t, 1, <<>>)

(***************************************************************************)
(* casics.py: the values of a repository entry.  A value is a tagged       *)
(* sequence: <<"None">>, <<"bool", b>>, <<"int", c1, ..., cn>> (its decimal *)
(* characters), <<"str", c1, ..., cn>>, <<"list", v1, ..., vn>>,            *)
(* <<"dict", f>> (f maps the keys to values), or <<"default", p>>: the      *)
(* list object that the def statement of repo_entry created as the default *)
(* value of parameter p, which every call that omits p receives.           *)
(***************************************************************************)
Tag(v) == v[1]
Payload(v) == Tail(v)

PyTrue == <<"bool", "True">>
PyFalse == <<"bool", "False">>
PyInt(cs) == <<"int">> \o cs
PyStr(cs) == <<"str">> \o cs
PyList(vs) == <<"list">> \o vs
EmptyList == <<"list">>
PyDict(f) == <<"dict", f>>
DefaultRef(p) == <<"default", p>>

\* An argument the caller does not pass.
Omitted == <<"<omitted>">>
IsOmitted(v) == Tag(v) = "<omitted>"

\* The parameters of repo_entry whose default value is [] ...
ListParams == {"text_languages", "languages", "licenses", "files",
               "content_type", "kind", "interfaces", "topics", "functions"}
\* ... and those whose default value is None; id has no default.
NoneParams == {"name", "owner", "description", "readme", "notes",
               "num_commits", "num_releases", "num_branches",
               "num_contributors", "default_branch", "homepage",
               "is_deleted", "is_visible", "is_fork", "fork_of", "fork_root",
               "created", "last_updated", "last_pushed", "data_refreshed"}
Params == {"id"} \cup ListParams \cup NoneParams

\* The keys of an entry that hold the argument object of a list parameter
\* as it was passed ('topics' is rebuilt when it is empty).
ListFields == ListParams \ {"topics"}

ParamDefault(p) == IF p \in ListParams THEN DefaultRef(p) ELSE None

\* The value parameter p is bound to in a call with arguments args.
Arg(args, p) == IF IsOmitted(args[p]) THEN ParamDefault(p) ELSE args[p]

\* The object a value denotes, defs being the default list objects.
Deref(v, defs) == IF Tag(v) = "default" THEN PyList(defs[v[2]]) ELSE v

\* not v
Falsy(v, defs) ==
    LET d == Deref(v, defs)
    IN  CASE Tag(d) = "None" -> TRUE
          [] Tag(d) = "bool" -> d = PyFalse
          [] Tag(d) = "int" -> d = PyInt(<<"0">>)
          [] Tag(d) \in {"str", "list"} -> Payload(d) = <<>>
          [] Tag(d) = "dict" -> DOMAIN d[2] = {}
          [] OTHER -> FALSE

\* v == False: true of False and of 0
EqFalse(v) ==
    CASE Tag(v) = "bool" -> v = PyFalse
      [] Tag(v) = "int" -> v = PyInt(<<"0">>)
      [] OTHER -> FALSE

make_fork(fork_parent, fork_root) ==
    PyDict([parent |-> fork_parent, root |-> fork_root])

make_topics(ontology, topics) == PyDict(ontology :> topics)

\* The first statement of repo_entry with the test 'is_fork == False' lost.
fork_field_conflated(is_fork, fork_of, fork_root, defs) ==
    IF Falsy(is_fork, defs) THEN PyFalse ELSE make_fork(fork_of, fork_root)

\* The first statement of repo_entry: the value of entry['fork'].
fork_field(is_fork, fork_of, fork_root, defs) ==
    IF EqFalse(is_fork) THEN PyFalse
    ELSE IF Falsy(is_fork, defs) THEN EmptyList
    ELSE make_fork(fork_of, fork_root)

\* repo_entry(id, ...): the dictionary it returns.  It raises nothing and
\* looks at no argument but is_fork and topics.
repo_entry(args, defs) ==
    LET a(p) == Arg(args, p)
        fork == fork_field(a("is_fork"), a("fork_of"), a("fork_root"), defs)
        topics == IF Falsy(a("topics"), defs)
                  THEN make_topics("lcsh", EmptyList)
                  ELSE a("topics")
    IN  Returned(
          [_id |-> a("id"), owner |-> a("owner"), name |-> a("name"),
           description |-> a("description"), readme |-> a("readme"),
           text_languages |-> a("text_languages"),
           languages |-> a("languages"), licenses |-> a("licenses"),
           files |-> a("files"), content_type |-> a("content_type"),
           kind |-> a("kind"), interfaces |-> a("interfaces"),
           topics |-> topics, notes |-> a("notes"),
           functions |-> a("functions"),
           num_commits |-> a("num_commits"),
           num_releases |-> a("num_releases"),
           num_branches |-> a("num_branches"),
           num_contributors |-> a("num_contributors"),
           is_visible |-> a("is_visible"), is_deleted |-> a("is_deleted"),
           fork |-> fork,
           time |-> [repo_created |-> a("created"),
                     repo_updated |-> a("last_updated"),
                     repo_pushed |-> a("last_pushed"),
                     data_refreshed |-> a("data_refreshed")],
           default_branch |-> a("default_branch"),
           homepage |-> a("homepage")])

\* The record side at rest: the default lists as the def statement made
\* them, no entry built, no accessor called.
NoCall == [fn |-> "none", arg |-> None, enc |-> "none", out |-> Returned(NoValue)]

RecIdle ==
    /\ defaults = [p \in ListParams |-> <<>>]
    /\ records = <<>>
    /\ ecall = NoCall

\* shell_cmd not called: no child process, no timer.
ShellIdle ==
    [pc |-> "idle", env |-> FALSE, proc |-> "none", returncode |-> "None",
     heir |-> "none", utf8 |-> TRUE, timer |-> "none", finished |-> FALSE,
     timeout |-> FALSE, signalled |-> "nothing", out |-> Returned(NoValue)]

\* flatten not called.
FlattenIdle ==
    [pc |-> "idle", input |-> None, iterator |-> <<>>, stack |-> <<>>,
     yielded |-> <<>>, raised |-> "none"]

ToolsIdle ==
    /\ sh = ShellIdle
    /\ fl = FlattenIdle

(***************************************************************************)
(* The file system and the processes that use the cache.                   *)
(***************************************************************************)
\* Two processes that each call save_cached_value once, w2 not before w1, one
\* after the other or at the same time; and a process that calls cached_value.
Writers == {"w1", "w2"}

OrigDirs == { <<"d">>, <<"e">> }
CacheNames == { <<"k">> }
CacheFiles == { cache_file(d, k) : d \in OrigDirs, k \in CacheNames }
PutValues == { <<"int", "1">>, <<"list", "1", "2">>, Unpicklable }

\* Bytes that are no pickle, written to a cache file by something else.
Garbage == <<"g", "a", "r", "b">>

NotCalled == [raised |-> "none", value |-> <<"<not called>">>]
Never == <<"<never put>">>
Unknown == <<"<unknown>">>
Absent == <<"<absent>">>

\* The content of file f, Absent when there is no such file.
FileOrAbsent(f) == IF f \in DOMAIN fsFiles THEN fsFiles[f] ELSE Absent

IdleWriter ==
    [pc |-> "idle", dir |-> <<>>, name |-> <<>>, val |-> None,
     dest_dir |-> <<>>, dest_file |-> <<>>, data |-> <<>>, off |-> 0,
     out |-> NotCalled, logged |-> FALSE, alone |-> TRUE, before |-> Never]

IdleReader ==
    [pc |-> "idle", dir |-> <<>>, name |-> <<>>, cache |-> <<>>,
     read |-> Never, out |-> NotCalled, logged |-> FALSE,
     expect |-> [val |-> Unknown, ok |-> FALSE]]

\* The cache side at rest: no directory, no file, nobody running.
CacheIdle ==
    /\ fsDirs = {}
    /\ fsFiles = <<>>
    /\ w = [i \in Writers |-> IdleWriter]
    /\ r = IdleReader
    /\ stable = [f \in CacheFiles |-> [val |-> Never, ok |-> FALSE]]
    /\ nGets = 0
    /\ nFaults = 0

\* os.path.exists(path)
PathExists(path) == path \in DOMAIN fsFiles \/ path \in fsDirs

\* A file with content c after a write of chunk ch at offset off: a write past
\* the end leaves a hole of NUL bytes.
RECURSIVE Nuls(_)
Nuls(k) == IF k <= 0 THEN <<>> ELSE <<"NUL">> \o Nuls(k - 1)

WriteAt(c, off, ch) ==
    LET pre == IF off <= Len(c) THEN SubSeq(c, 1, off) ELSE c \o Nuls(off - Len(c))
    IN  pre \o ch \o SubSeq(c, off + Len(ch) + 1, Len(c))

\* A write that reaches every file of the store.
WithFileAll(f, c) == [g \in DOMAIN fsFiles \cup {f} |-> c]

\* fsFiles with file f holding content c.
WithFile(f, c) == [g \in DOMAIN fsFiles \cup {f} |-> IF g = f THEN c ELSE fsFiles[g]]

\* Logger().get_log().error(...): the error is recorded and the call returns.
LogError(proc) == [proc EXCEPT !.logged = TRUE]

(***************************************************************************)
(* save_cached_value(orig_dir, cache_name, data_structure), one system     *)
(* call per step: makedirs; open for writing, which truncates; the writes  *)
(* of the pickle, BufSize tokens at a time, the last with the close.       *)
(***************************************************************************)
\* Which except clause of save_cached_value takes exception exc.  IOError is
\* OSError.  The second clause names PickleError, which cache.py itself never
\* binds: only the star import of .logger could.  Unbound, evaluating the
\* clause raises NameError; bound, it takes pickle.PickleError and nothing else.
SaveHandler(exc, bound) ==
    CASE exc = "OSError" -> "swallow"
      [] ~bound -> "NameError"
      [] exc = "PicklingError" -> "swallow"
      [] OTHER -> exc

\* The writer after its call ended with exception exc inside the try.
PutFailed(wr, exc, bound) ==
    LET h == SaveHandler(exc, bound)
    IN  IF h = "swallow"
        THEN LogError([wr EXCEPT !.pc = "idle", !.out = Returned(None),
                                 !.data = <<>>, !.off = 0])
        ELSE [wr EXCEPT !.pc = "idle", !.out = Raised(h), !.data = <<>>, !.off = 0]

\* The ghost 'stable' when writer i's put on file f ends: the value it wrote if
\* it ran alone on f, and whether it ended without any failure.
Settle(i, f, ok) ==
    stable' = [stable EXCEPT ![f] =
                 IF w[i].alone /\ \A j \in Writers \ {i} :
                                     ~(w[j].pc # "idle" /\ w[j].dest_file = f)
                 THEN [val |-> w[i].val, ok |-> ok]
                 ELSE [val |-> Unknown, ok |-> FALSE]]

\* The call, up to and including os.makedirs(dest_dir, exist_ok=True).
PutCall(i, orig_dir, cache_name, v, fail) ==
    /\ w[i].pc = "idle" /\ w[i].out = NotCalled
    /\ i = "w1" \/ w["w1"].pc # "idle" \/ w["w1"].out # NotCalled
    /\ fail => nFaults < MaxFaults
    /\ nFaults' = nFaults + (IF fail THEN 1 ELSE 0)
    /\ LET dest_dir == cache_dir(orig_dir)
           dest_file == cache_file(orig_dir, cache_name)
           others == {j \in Writers \ {i} : w[j].pc # "idle" /\ w[j].dest_file = dest_file}
           me == [IdleWriter EXCEPT !.dir = orig_dir, !.name = cache_name, !.val = v,
                                    !.dest_dir = dest_dir, !.dest_file = dest_file,
                                    !.alone = (others = {}),
                                    !.before = FileOrAbsent(dest_file)]
       IN  /\ w' = [j \in Writers |->
                      IF j = i
                      THEN IF fail THEN PutFailed(me, "OSError", TRUE)
                           ELSE [me EXCEPT !.pc = "open"]
                      ELSE IF j \in others THEN [w[j] EXCEPT !.alone = FALSE]
                      ELSE w[j]]
           /\ fsDirs' = IF fail THEN fsDirs ELSE fsDirs \cup {dest_dir}
           /\ stable' = [stable EXCEPT ![dest_file] =
                           IF fail /\ others = {}
                           THEN [val |-> v, ok |-> FALSE]
                           ELSE [val |-> Unknown, ok |-> FALSE]]
           /\ r' = IF r.pc # "idle" /\ r.cache = dest_file /\ ~fail
                   THEN [r EXCEPT !.expect = [val |-> Unknown, ok |-> FALSE]]
                   ELSE r
    /\ UNCHANGED <<fsFiles, nGets>>

\* The open with mode 'r+b' (or 'ab' and a seek) in the place of 'wb': an
\* existing file keeps its content.
PutOpenKeep(i, fail) ==
    /\ w[i].pc = "open"
    /\ fail => nFaults < MaxFaults
    /\ nFaults' = nFaults + (IF fail THEN 1 ELSE 0)
    /\ IF fail
       THEN /\ w' = [w EXCEPT ![i] = PutFailed(w[i], "OSError", TRUE)]
            /\ Settle(i, w[i].dest_file, FALSE)
            /\ UNCHANGED fsFiles
       ELSE /\ w' = [w EXCEPT ![i].pc = "dump"]
            /\ fsFiles' = WithFile(w[i].dest_file, IF w[i].dest_file \in DOMAIN fsFiles
                                                   THEN fsFiles[w[i].dest_file]
                                                   ELSE <<>>)
            /\ UNCHANGED stable
    /\ UNCHANGED <<fsDirs, r, nGets>>

\* open(dest_file, 'wb'): the file is created, or cut to length 0.
PutOpen(i, fail) ==
    /\ w[i].pc = "open"
    /\ fail => nFaults < MaxFaults
    /\ nFaults' = nFaults + (IF fail THEN 1 ELSE 0)
    /\ IF fail
       THEN /\ w' = [w EXCEPT ![i] = PutFailed(w[i], "OSError", TRUE)]
            /\ Settle(i, w[i].dest_file, FALSE)
            /\ UNCHANGED fsFiles
       ELSE /\ w' = [w EXCEPT ![i].pc = "dump"]
            /\ fsFiles' = WithFile(w[i].dest_file, <<>>)
            /\ UNCHANGED stable
    /\ UNCHANGED <<fsDirs, r, nGets>>

\* One write of the next BufSize tokens of the pickle at the writer's own
\* offset; the last one is followed by the close and the return.
WriteChunk(i, data, fail) ==
    LET off == w[i].off
        n == Min(BufSize, Len(data) - off)
        f == w[i].dest_file
    IN  IF fail
        THEN /\ w' = [w EXCEPT ![i] = PutFailed(w[i], "OSError", TRUE)]
             /\ Settle(i, f, FALSE)
             /\ UNCHANGED fsFiles
        ELSE /\ fsFiles' = WithFile(f, WriteAt(fsFiles[f], off, SubSeq(data, off + 1, off + n)))
             /\ IF off + n = Len(data)
                THEN /\ w' = [w EXCEPT ![i].pc = "idle", ![i].out = Returned(None),
                                       ![i].data = <<>>, ![i].off = 0]
                     /\ Settle(i, f, TRUE)
                ELSE /\ w' = [w EXCEPT ![i].pc = "write", ![i].data = data,
                                       ![i].off = off + n]
                     /\ UNCHANGED stable

\* pickle.dump(data_structure, pickle_file): the value is pickled, or the dump
\* raises and the with statement closes the empty file; then the first write.
PutDump(i, fail, exc, bound) ==
    /\ w[i].pc = "dump"
    /\ fail => nFaults < MaxFaults /\ Picklable(w[i].val)
    /\ nFaults' = nFaults + (IF fail THEN 1 ELSE 0)
    /\ IF Picklable(w[i].val)
       THEN WriteChunk(i, Pickle(w[i].val), fail)
       ELSE /\ w' = [w EXCEPT ![i] = PutFailed(w[i], exc, bound)]
            /\ Settle(i, w[i].dest_file, FALSE)
            /\ UNCHANGED fsFiles
    /\ UNCHANGED <<fsDirs, r, nGets>>

PutWrite(i, fail) ==
    /\ w[i].pc = "write"
    /\ fail => nFaults < MaxFaults
    /\ nFaults' = nFaults + (IF fail THEN 1 ELSE 0)
    /\ WriteChunk(i, w[i].data, fail)
    /\ UNCHANGED <<fsDirs, r, nGets>>

(***************************************************************************)
(* cached_value(orig_dir, cache_name): the existence test, then the open   *)
(* and the load.                                                           *)
(***************************************************************************)
\* 'except Exception' takes every exception the open and the load can raise.
\* (OnlyUnpicklingError is a faulty variant, 'except pickle.UnpicklingError'.)
OnlyUnpicklingError(exc) == exc = "UnpicklingError"
IsException(exc) == exc \in {"OSError", "EOFError", "UnpicklingError"}

\* The branch 'if not os.path.exists(cache): return None'.
\* (MissRaises is a faulty variant that lets open() fail on the missing file.)
MissRaises == Raised("FileNotFoundError")
cached_value_miss == Returned(None)

\* The reader after open or load raised exc.
GetFailed(rd, exc) ==
    IF IsException(exc)
    THEN LogError([rd EXCEPT !.pc = "idle", !.out = Returned(None)])
    ELSE [rd EXCEPT !.pc = "idle", !.out = Raised(exc)]

GetCall(orig_dir, cache_name) ==
    /\ r.pc = "idle"
    /\ nGets < MaxGets
    /\ nGets' = nGets + 1
    /\ LET cache == cache_file(orig_dir, cache_name)
           me == [IdleReader EXCEPT !.dir = orig_dir, !.name = cache_name,
                                    !.cache = cache,
                                    !.expect =
                                       IF \E j \in Writers :
                                            w[j].pc # "idle" /\ w[j].dest_file = cache
                                       THEN [val |-> Unknown, ok |-> FALSE]
                                       ELSE stable[cache]]
       IN  r' = IF PathExists(cache)
                THEN [me EXCEPT !.pc = "load"]
                ELSE [me EXCEPT !.out = cached_value_miss]
    /\ UNCHANGED <<fsDirs, fsFiles, w, stable, nFaults>>

GetLoad(fail) ==
    /\ r.pc = "load"
    /\ fail => nFaults < MaxFaults
    /\ nFaults' = nFaults + (IF fail THEN 1 ELSE 0)
    /\ r' = IF fail THEN GetFailed(r, "OSError")
            ELSE LET content == fsFiles[r.cache]
                     got == Unpickle(content)
                 IN  IF got.raised = "none"
                     THEN [r EXCEPT !.pc = "idle", !.out = got, !.read = content]
                     ELSE GetFailed([r EXCEPT !.read = content], got.raised)
    /\ UNCHANGED <<fsDirs, fsFiles, w, stable, nGets>>

\* The cache before the run: nothing, or a cache file of garbage bytes.
CacheInit ==
    /\ root = <<>>
    /\ calls = <<>>
    /\ lookups = <<>>
    /\ RecIdle
    /\ ToolsIdle
    /\ w = [i \in Writers |-> IdleWriter]
    /\ r = IdleReader
    /\ nGets = 0
    /\ nFaults = 0
    /\ \/ /\ fsDirs = {}
          /\ fsFiles = <<>>
          /\ stable = [f \in CacheFiles |-> [val |-> Never, ok |-> FALSE]]
       \/ \E f \in CacheFiles, d \in OrigDirs :
          /\ f = cache_file(d, <<"k">>)
          /\ fsDirs = {cache_dir(d)}
          /\ fsFiles = [g \in {f} |-> Garbage]
          /\ stable = [g \in CacheFiles |->
                         [val |-> IF g = f THEN Unknown ELSE Never, ok |-> FALSE]]

CacheNext ==
    \/ \E i \in Writers, d \in OrigDirs, k \in CacheNames, v \in PutValues,
          fail \in BOOLEAN : PutCall(i, d, k, v, fail) /\ UNCHANGED pureVars
    \/ \E i \in Writers, fail \in BOOLEAN : PutOpen(i, fail) /\ UNCHANGED pureVars
    \/ \E i \in Writers, fail \in BOOLEAN, exc \in DumpErrors, bound \in BOOLEAN :
          PutDump(i, fail, exc, bound) /\ UNCHANGED pureVars
    \/ \E i \in Writers, fail \in BOOLEAN : PutWrite(i, fail) /\ UNCHANGED pureVars
    \/ \E d \in OrigDirs, k \in CacheNames : GetCall(d, k) /\ UNCHANGED pureVars
    \/ \E fail \in BOOLEAN : GetLoad(fail) /\ UNCHANGED pureVars

CacheSpec == CacheInit /\ [][CacheNext]_vars

(***************************************************************************)
(* The names a put and a later get compute: save_cached_value evaluates    *)
(* cache_dir and cache_file of its arguments, cached_value cache_file.     *)
(***************************************************************************)
DirChars == {"/", "d"}

RECURSIVE StringsUpTo(_)
StringsUpTo(n) ==
    IF n = 0 THEN { <<>> }
    ELSE StringsUpTo(n - 1)
         \cup { Append(x, c) : x \in StringsUpTo(n - 1), c \in DirChars }

NameDirs == StringsUpTo(MaxDirLen)
LookupNames == { <<"k">>, <<"j">> }

NameInit ==
    /\ root = <<>>
    /\ calls = <<>>
    /\ lookups = <<>>
    /\ RecIdle
    /\ ToolsIdle
    /\ CacheIdle

\* put(orig_dir, cache_name): dest_dir and dest_file of save_cached_value.
PutLookup(orig_dir, cache_name) ==
    /\ lookups = <<>>
    /\ lookups' = <<[op |-> "put", dir |-> orig_dir, name |-> cache_name,
                     dest_dir |-> cache_dir(orig_dir),
                     dest_file |-> cache_file(orig_dir, cache_name)]>>
    /\ UNCHANGED <<pathVars, cacheVars, recVars, toolVars>>

\* get(orig_dir, cache_name) after it: the cache file of cached_value.
GetLookup(orig_dir, cache_name) ==
    /\ Len(lookups) = 1
    /\ lookups' = Append(lookups,
                    [op |-> "get", dir |-> orig_dir, name |-> cache_name,
                     dest_dir |-> cache_dir(orig_dir),
                     dest_file |-> cache_file(orig_dir, cache_name)])
    /\ UNCHANGED <<pathVars, cacheVars, recVars, toolVars>>

NameNext ==
    \/ \E d \in NameDirs, k \in LookupNames : PutLookup(d, k)
    \/ \E d \in NameDirs, k \in LookupNames : GetLookup(d, k)

NameSpec == NameInit /\ [][NameNext]_vars

(***************************************************************************)
(* The record model: a process that builds entries with repo_entry and     *)
(* then fills them in place, as the enrichment passes do.                  *)
(***************************************************************************)
\* In-place appends of a run.
MaxAppends == 1

RecordNames == {"r1", "r2"}

NoArgs == [p \in Params |-> Omitted]
With(args, p, v) == [args EXCEPT ![p] = v]
IdArgs(id) == With(NoArgs, "id", id)

Id42 == PyInt(<<"4", "2">>)
Ids == {Id42, PyInt(<<"0">>), PyInt(<<"-", "1">>), PyStr(<<"a", "b", "c">>), None}
Flags == {Omitted, PyTrue, PyFalse}
IsForkArgs == {Omitted, PyTrue, PyFalse, PyInt(<<"0">>)}
ParentArgs == {Omitted, PyInt(<<"7">>)}
Python == PyDict([name |-> PyStr(<<"P">>)])
Java == PyDict([name |-> PyStr(<<"J">>)])
Minus1 == PyInt(<<"-", "1">>)
LanguagesArgs == {Omitted, EmptyList, Minus1, PyList(<<Python>>)}
TopicsArgs == {EmptyList, PyDict("lcsh" :> PyList(<<PyStr(<<"t">>)>>))}

\* The calls of repo_entry that the model makes.
ArgSets ==
    { IdArgs(id) : id \in Ids }
    \cup { With(With(IdArgs(Id42), "is_deleted", d), "is_visible", v) :
             d \in Flags, v \in Flags }
    \cup { With(With(With(IdArgs(Id42), "is_fork", f), "fork_of", o),
                "fork_root", t) :
             f \in IsForkArgs, o \in ParentArgs, t \in ParentArgs }
    \cup { With(IdArgs(Id42), "languages", l) : l \in LanguagesArgs }
    \cup { With(IdArgs(Id42), "topics", t) : t \in TopicsArgs }
    \cup { With(IdArgs(Id42), p, PyList(<<PyStr(<<"x">>)>>)) :
             p \in ListFields \ {"languages"} }

\* What an enrichment pass appends to the list of a field.
Elem(p) == IF p = "languages" THEN Java ELSE PyStr(<<"y">>)

RangeOf(s) == { s[i] : i \in DOMAIN s }
AppendsOf(e) == IF e \in DOMAIN records THEN Len(records[e].appended) ELSE 0
TotalAppends == AppendsOf("r1") + AppendsOf("r2")

RecordInit ==
    /\ root = <<>>
    /\ calls = <<>>
    /\ lookups = <<>>
    /\ CacheIdle
    /\ RecIdle
    /\ ToolsIdle

\* What the model keeps of a call repo_entry(**args): the entry, the
\* arguments, and the lists that the entry held when the call returned.
BuiltRecord(args, defs) ==
    LET out == repo_entry(args, defs)
    IN  [args |-> args,
         raised |-> out.raised,
         entry |-> out.value,
         returned |-> [p \in ListFields |-> Deref(out.value[p], defs)],
         appended |-> <<>>]

\* entry = repo_entry(**args)
RepoEntry(e, args) ==
    /\ e \notin DOMAIN records
    /\ e = "r2" => "r1" \in DOMAIN records
    /\ records' = (e :> BuiltRecord(args, defaults)) @@ records
    /\ UNCHANGED <<defaults, ecall>>
    /\ UNCHANGED <<pathVars, lookups, cacheVars, toolVars>>

\* entry[p].append(Elem(p)): the list object that the entry holds under key p
\* grows; when that object is the default of parameter p, the default grows.
AppendTo(e, p) ==
    /\ e \in DOMAIN records
    /\ TotalAppends < MaxAppends
    /\ Tag(Deref(records[e].entry[p], defaults)) = "list"
    /\ IF Tag(records[e].entry[p]) = "default"
       THEN /\ defaults' = [defaults EXCEPT ![p] = Append(@, Elem(p))]
            /\ records' = [records EXCEPT ![e].appended = Append(@, p)]
       ELSE /\ defaults' = defaults
            /\ records' = [records EXCEPT ![e].entry[p] = Append(@, Elem(p)),
                                          ![e].appended = Append(@, p)]
    /\ UNCHANGED ecall
    /\ UNCHANGED <<pathVars, lookups, cacheVars, toolVars>>

RecordNext ==
    \/ \E e \in RecordNames, args \in ArgSets : RepoEntry(e, args)
    \/ \E e \in RecordNames, p \in ListFields : AppendTo(e, p)

RecordSpec == RecordInit /\ [][RecordNext]_vars

(***************************************************************************)
(* casics.py: the helpers and accessors of an entry.                       *)
(***************************************************************************)
LangDict(n) == PyDict([name |-> n])

\* make_languages with the isinstance test lost: the comprehension runs over
\* the characters of a single name.
make_languages_chars(langs) ==
    LET l == IF Tag(langs) = "list" THEN Payload(langs)
             ELSE [i \in 1 .. Len(Payload(langs)) |-> PyStr(<<Payload(langs)[i]>>)]
    IN  Returned(PyList([i \in 1 .. Len(l) |-> LangDict(l[i])]))

\* make_languages(langs): what is not a list is one name.
make_languages(langs) ==
    LET l == IF Tag(langs) # "list" THEN <<langs>> ELSE Payload(langs)
    IN  Returned(PyList([i \in 1 .. Len(l) |-> LangDict(l[i])]))

\* lang['name'] works on a dict that has the key.
HasName(lang) == Tag(lang) = "dict" /\ "name" \in DOMAIN lang[2]

\* e_languages with -1 taken for an unset value.
e_languages_minus1_unset(entry, defs) ==
    LET v == Deref(entry.languages, defs)
    IN  IF Falsy(v, defs) \/ (Tag(v) = "int" /\ v = Minus1) THEN Returned(EmptyList)
        ELSE IF Tag(v) = "list"
        THEN Returned(PyList([i \in 1 .. Len(Payload(v)) |-> Payload(v)[i][2]["name"]]))
        ELSE Returned(v)

\* e_languages(entry)
e_languages(entry, defs) ==
    LET v == Deref(entry.languages, defs)
    IN  IF Falsy(v, defs) THEN Returned(EmptyList)
        ELSE IF Tag(v) = "int" /\ v = Minus1 THEN Returned(Minus1)
        ELSE IF Tag(v) = "list"
        THEN IF \A i \in 1 .. Len(Payload(v)) : HasName(Payload(v)[i])
             THEN Returned(PyList([i \in 1 .. Len(Payload(v)) |->
                                     Payload(v)[i][2]["name"]]))
             ELSE IF \E i \in 1 .. Len(Payload(v)) : Tag(Payload(v)[i]) # "dict"
             THEN Raised("TypeError")
             ELSE Raised("KeyError")
        ELSE Returned(v)

\* str(v), as '{}'.format(v) computes it
StrOf(v) ==
    CASE Tag(v) \in {"str", "int"} -> Payload(v)
      [] Tag(v) = "None" -> <<"N", "o", "n", "e">>
      [] Tag(v) = "bool" -> <<v[2]>>
      [] OTHER -> <<"<repr>">>

\* '{}/{}'.format(owner, name) in the place of owner + '/' + name.
e_path_format(entry) ==
    Returned(PyStr(StrOf(entry.owner) \o <<"/">> \o StrOf(entry.name)))

\* e_path(entry): + is defined between two str; with None, or any other
\* type, on either side it raises TypeError.
e_path(entry) ==
    IF Tag(entry.owner) = "str" /\ Tag(entry.name) = "str"
    THEN Returned(PyStr(Payload(entry.owner) \o <<"/">> \o Payload(entry.name)))
    ELSE Raised("TypeError")

\* Characters outside ASCII: U+00E9 is in Latin-1, U+03BB is not.
NonAscii == {"U+00E9", "U+03BB"}
Latin1 == {"U+00E9"}
\* The values of sys.stdout.encoding in the model.
Encodings == {"ascii", "latin-1", "utf-8"}

Utf8(c) == IF c = "U+00E9" THEN <<"0xC3", "0xA9">> ELSE <<"0xCE", "0xBB">>
HighBytes == {"0xC3", "0xA9", "0xCE", "0xBB", "0xE9"}

\* c.encode(enc, errors='replace'): the bytes of one character; an ASCII
\* character is its own byte.
EncodeChar(c, enc) ==
    IF c \notin NonAscii THEN <<c>>
    ELSE IF enc = "utf-8" THEN Utf8(c)
    ELSE IF enc = "latin-1" /\ c \in Latin1 THEN <<"0xE9">>
    ELSE <<"?">>

RECURSIVE Encode(_, _)
Encode(s, enc) ==
    IF s = <<>> THEN <<>> ELSE EncodeChar(Head(s), enc) \o Encode(Tail(s), enc)

\* b.decode('ascii')
DecodeAscii(b) ==
    IF \E i \in 1 .. Len(b) : b[i] \in HighBytes
    THEN Raised("UnicodeDecodeError")
    ELSE Returned(PyStr(b))

\* e_summary(entry), enc being sys.stdout.encoding
e_summary(entry, enc) ==
    LET path == e_path(entry)
    IN  IF path.raised # "none" THEN path
        ELSE DecodeAscii(Encode(Payload(path.value) \o <<" ", "(", "#">>
                                \o StrOf(entry._id) \o <<")">>, enc))

(***************************************************************************)
(* The accessor model: one entry, built by repo_entry, on which the        *)
(* accessors are called; and calls of make_languages.                      *)
(***************************************************************************)
Octo == PyStr(<<"o", "c", "t", "o">>)
Cat == PyStr(<<"c", "a", "t">>)
Owners == {Omitted, Octo, PyStr(<<"U+00E9", "o">>), PyStr(<<"U+03BB">>)}
Names == {Omitted, Cat}
EntryLanguages == {Omitted, None, EmptyList, Minus1, PyList(<<Python>>),
                   PyList(<<Python, Java>>)}
EntryArgSets ==
    { With(With(With(IdArgs(Id42), "owner", o), "name", n), "languages", l) :
        o \in Owners, n \in Names, l \in EntryLanguages }

PyName == PyStr(<<"P", "y">>)
CName == PyStr(<<"C">>)
LangInputs == {PyName, CName, EmptyList, PyList(<<PyName>>),
               PyList(<<PyName, CName>>), PyList(<<LangDict(PyName)>>),
               PyList(<<LangDict(PyName), LangDict(CName)>>)}

EntryInit ==
    /\ root = <<>>
    /\ calls = <<>>
    /\ lookups = <<>>
    /\ CacheIdle
    /\ defaults = [p \in ListParams |-> <<>>]
    /\ \E args \in EntryArgSets : records = "r1" :> BuiltRecord(args, defaults)
    /\ ecall = NoCall
    /\ ToolsIdle

TheEntry == records["r1"].entry

\* e_path(entry)
EPath ==
    /\ ecall' = [fn |-> "e_path", arg |-> <<"r1">>, enc |-> "none",
                 out |-> e_path(TheEntry)]
    /\ UNCHANGED <<defaults, records>>
    /\ UNCHANGED <<pathVars, lookups, cacheVars, toolVars>>

\* e_summary(entry), in a process whose sys.stdout.encoding is enc
ESummary(enc) ==
    /\ ecall' = [fn |-> "e_summary", arg |-> <<"r1">>, enc |-> enc,
                 out |-> e_summary(TheEntry, enc)]
    /\ UNCHANGED <<defaults, records>>
    /\ UNCHANGED <<pathVars, lookups, cacheVars, toolVars>>

\* e_languages(entry)
ELanguages ==
    /\ ecall' = [fn |-> "e_languages", arg |-> <<"r1">>, enc |-> "none",
                 out |-> e_languages(TheEntry, defaults)]
    /\ UNCHANGED <<defaults, records>>
    /\ UNCHANGED <<pathVars, lookups, cacheVars, toolVars>>

\* make_languages(langs)
MakeLanguages(langs) ==
    /\ ecall' = [fn |-> "make_languages", arg |-> langs, enc |-> "none",
                 out |-> make_languages(langs)]
    /\ UNCHANGED <<defaults, records>>
    /\ UNCHANGED <<pathVars, lookups, cacheVars, toolVars>>

EntryNext ==
    \/ EPath
    \/ \E enc \in Encodings : ESummary(enc)
    \/ ELanguages
    \/ \E langs \in LangInputs : MakeLanguages(langs)

EntrySpec == EntryInit /\ [][EntryNext]_vars

(***************************************************************************)
(* The inputs of the path model.                                           *)
(***************************************************************************)
Roots == { <<>>, <<"d">>, <<"/", "d">>, <<"/", "d", "/">> }

\* The largest id that has an 8-digit decimal form.
MaxId == 10^FormatWidth - 1

PathIds ==
    (0 .. MaxSmallId)
    \cup {62, 156399, 7182480, 10000000, MaxId}
    \cup {MaxId + 1, MaxId + 2, 999999999}
    \cup {-1, -1000000, -10000000}

Impls == {"casics", "path"}

PathInit ==
    /\ root \in Roots
    /\ calls = <<>>
    /\ lookups = <<>>
    /\ RecIdle
    /\ ToolsIdle
    /\ CacheIdle

\* One call generate_path(root, id) of either copy.
GeneratePath(impl, id) ==
    /\ Len(calls) < MaxCalls
    /\ calls' = Append(calls,
           [impl |-> impl, id |-> id,
            out |-> IF impl = "casics" THEN generate_path(root, id)
                    ELSE path_generate_path(root, id)])
    /\ UNCHANGED <<root, lookups>>
    /\ UNCHANGED <<cacheVars, recVars, toolVars>>

PathNext == \E impl \in Impls, id \in PathIds : GeneratePath(impl, id)

PathSpec == PathInit /\ [][PathNext]_vars

(***************************************************************************)
(* generate_path for any repo_id: int(repo_id) first, which takes an int,  *)
(* a bool or the decimal string of an int and raises for anything else.    *)
(***************************************************************************)
RECURSIVE DecimalValue(_)
DecimalValue(cs) ==
    IF cs = <<>> THEN 0
    ELSE 10 * DecimalValue(SubSeq(cs, 1, Len(cs) - 1))
         + (CHOOSE d \in 0 .. 9 : DigitChars[d + 1] = cs[Len(cs)])

AllDigits(cs) == cs # <<>> /\ \A i \in 1 .. Len(cs) : IsDigit(cs[i])

\* A decimal literal with its sign, as int() reads it.
SignedValue(cs) ==
    IF cs # <<>> /\ Head(cs) = "-" THEN 0 - DecimalValue(Tail(cs))
    ELSE IF cs # <<>> /\ Head(cs) = "+" THEN DecimalValue(Tail(cs))
    ELSE DecimalValue(cs)
IsSigned(cs) ==
    IF cs # <<>> /\ Head(cs) \in {"-", "+"} THEN AllDigits(Tail(cs))
    ELSE AllDigits(cs)

\* s.strip()
RECURSIVE LStrip(_)
LStrip(cs) == IF cs # <<>> /\ Head(cs) = " " THEN LStrip(Tail(cs)) ELSE cs
RECURSIVE RStrip(_)
RStrip(cs) ==
    IF cs # <<>> /\ cs[Len(cs)] = " " THEN RStrip(SubSeq(cs, 1, Len(cs) - 1))
    ELSE cs
Strip(cs) == RStrip(LStrip(cs))

\* int(v)
int(v) ==
    CASE Tag(v) = "int" -> Returned(SignedValue(Payload(v)))
      [] Tag(v) = "bool" -> Returned(IF v = PyTrue THEN 1 ELSE 0)
      [] Tag(v) = "str" ->
            IF IsSigned(Strip(Payload(v)))
            THEN Returned(SignedValue(Strip(Payload(v))))
            ELSE Raised("ValueError")
      [] OTHER -> Raised("TypeError")

\* casics.generate_path(root, repo_id)
casics_generate_path(rt, repo_id) ==
    LET n == int(repo_id)
    IN  IF n.raised # "none" THEN n ELSE generate_path(rt, n.value)

\* path.generate_path(root, repo_id)
path_generate_path_any(rt, repo_id) ==
    LET n == int(repo_id)
    IN  IF n.raised # "none" THEN n ELSE path_generate_path(rt, n.value)

\* The repo_id values of the model: ints in and out of the 8-digit range,
\* decimal strings of such, strings that are no decimal literal, and values
\* of other types.
AnyIds ==
    { PyInt(<<"7">>), PyInt(<<"7", "1", "8", "2", "4", "8", "0">>),
      PyInt(<<"-", "1">>), PyInt(<<"1", "0", "0", "0", "0", "0", "0", "0", "0">>),
      PyStr(<<"7">>), PyStr(<<"0", "0", "7">>), PyStr(<<" ", "6", "2", " ">>),
      PyStr(<<"+", "5">>), PyStr(<<"-", "1">>),
      PyStr(<<"1", "0", "0", "0", "0", "0", "0", "0", "1">>),
      PyStr(<<"a", "b", "c">>), PyStr(<<"4", ".", "2">>), PyStr(<<>>),
      PyTrue, None, EmptyList }

EquivInit ==
    /\ root \in Roots
    /\ calls = <<>>
    /\ lookups = <<>>
    /\ RecIdle
    /\ ToolsIdle
    /\ CacheIdle

\* The same call made on both copies.
GeneratePathBoth(id) ==
    /\ Len(calls) < MaxCalls
    /\ calls' = Append(calls,
           [id |-> id,
            casics |-> casics_generate_path(root, id),
            path |-> path_generate_path_any(root, id)])
    /\ UNCHANGED <<root, lookups>>
    /\ UNCHANGED <<cacheVars, recVars, toolVars>>

EquivNext == \E id \in AnyIds : GeneratePathBoth(id)

EquivSpec == EquivInit /\ [][EquivNext]_vars

(***************************************************************************)
(* system.py: shell_cmd(args, max_time, env).  Three parties take steps:   *)
(* the calling thread, the Timer thread, and the child process with the    *)
(* processes it has started, which inherit its stdout and stderr pipes.    *)
(***************************************************************************)
ShellFrame == UNCHANGED <<pathVars, lookups, cacheVars, recVars, fl>>

\* shell_cmd(args, max_time, env): args names a program that exists or not,
\* whose output is valid UTF-8 or not, and which leaves a process of its own
\* behind (an heir of its pipes) or not.
ShellCall(env, exists, utf8, heir) ==
    /\ sh = ShellIdle
    /\ sh' = [ShellIdle EXCEPT !.pc = "popen", !.env = env, !.utf8 = utf8,
                               !.proc = IF exists THEN "found" ELSE "none",
                               !.heir = IF heir THEN "due" ELSE "none"]
    /\ ShellFrame

\* proc = Popen(args, stdout=PIPE, stderr=PIPE, stdin=PIPE, ...), with or
\* without env: the child runs, or Popen raises for a program that is not
\* there.
Popen ==
    /\ sh.pc = "popen"
    /\ sh' = IF sh.proc = "found"
             THEN [sh EXCEPT !.pc = "timer", !.proc = "running",
                             !.heir = IF sh.heir = "due" THEN "alive" ELSE "none"]
             ELSE [sh EXCEPT !.pc = "done", !.out = Raised("OSError")]
    /\ ShellFrame

\* timeout = {'value': False}; timer = Timer(...); timer.start()
TimerStart ==
    /\ sh.pc = "timer"
    /\ sh' = [sh EXCEPT !.pc = "communicate", !.timer = "waiting"]
    /\ ShellFrame

\* proc.communicate() returns when both pipes are at end of file, which is
\* when no process holds their write ends any more, and the child is
\* reaped: it then has a returncode.
Communicate ==
    /\ sh.pc = "communicate"
    /\ sh.proc \in {"exited", "killed"}
    /\ sh.heir # "alive"
    /\ sh' = [sh EXCEPT !.pc = "cancel",
                        !.returncode = IF sh.proc = "killed" THEN "-9" ELSE "0"]
    /\ ShellFrame

\* timer.cancel()
Cancel ==
    /\ sh.pc = "cancel"
    /\ sh' = [sh EXCEPT !.pc = "return", !.finished = TRUE]
    /\ ShellFrame

\* return proc.returncode, stdout.decode("utf-8"), stderr.decode("utf-8")
Return ==
    /\ sh.pc = "return"
    /\ sh' = [sh EXCEPT !.pc = "done",
                        !.out = IF sh.utf8
                                THEN Returned(<<sh.returncode, "stdout", "stderr">>)
                                ELSE Raised("UnicodeDecodeError")]
    /\ ShellFrame

\* Timer.run: self.finished.wait(self.interval) returns, the interval over or
\* the timer cancelled.
TimerWake ==
    /\ sh.timer = "waiting"
    /\ sh' = [sh EXCEPT !.timer = "woken"]
    /\ ShellFrame

\* Timer.run: if not self.finished.is_set(): call kill_proc
TimerCheck ==
    /\ sh.timer = "woken"
    /\ sh' = [sh EXCEPT !.timer = IF sh.finished THEN "done" ELSE "mark"]
    /\ ShellFrame

\* kill_proc: timeout['value'] = True
TimerMark ==
    /\ sh.timer = "mark"
    /\ sh' = [sh EXCEPT !.timer = "kill", !.timeout = TRUE]
    /\ ShellFrame

\* kill_proc: proc.kill(), which signals the child's pid only, and only
\* while the child has no returncode; then Timer.run sets finished.
TimerKill ==
    /\ sh.timer = "kill"
    /\ sh' = [sh EXCEPT !.timer = "done", !.finished = TRUE,
                        !.proc = IF sh.returncode = "None" /\ sh.proc = "running"
                                 THEN "killed" ELSE sh.proc,
                        !.signalled = IF sh.returncode # "None" THEN sh.signalled
                                      ELSE IF sh.proc = "running" THEN "child"
                                      ELSE "zombie"]
    /\ ShellFrame

\* The child ends by itself.
ChildExit ==
    /\ sh.proc = "running"
    /\ sh' = [sh EXCEPT !.proc = "exited"]
    /\ ShellFrame

\* The process the child left behind ends, and with it the last holder of
\* the pipes.
HeirExit ==
    /\ sh.heir = "alive"
    /\ sh' = [sh EXCEPT !.heir = "gone"]
    /\ ShellFrame

ShellInit ==
    /\ root = <<>>
    /\ calls = <<>>
    /\ lookups = <<>>
    /\ CacheIdle
    /\ RecIdle
    /\ ToolsIdle

ShellMain ==
    \/ \E env \in BOOLEAN, exists \in BOOLEAN, utf8 \in BOOLEAN, heir \in BOOLEAN :
          ShellCall(env, exists, utf8, heir)
    \/ Popen
    \/ TimerStart
    \/ Communicate
    \/ Cancel
    \/ Return

ShellTimer ==
    \/ TimerWake
    \/ TimerCheck
    \/ TimerMark
    \/ TimerKill

ShellNext ==
    \/ ShellMain
    \/ ShellTimer
    \/ ChildExit
    \/ HeirExit

\* Both threads are scheduled and the interval of the timer ends; no child
\* and no process it left behind is bound to end by itself.
ShellSpec ==
    ShellInit /\ [][ShellNext]_vars /\ WF_vars(ShellMain) /\ WF_vars(ShellTimer)

(***************************************************************************)
(* data_helpers.py: flatten(iterable), a generator.  The current iterator  *)
(* is the sequence of the values it has still to produce, and the stack    *)
(* holds the suspended iterators, the most recent one last.                *)
(***************************************************************************)
FlattenFrame == UNCHANGED <<pathVars, lookups, cacheVars, recVars, sh>>

I1 == PyInt(<<"1">>)
I2 == PyInt(<<"2">>)
I3 == PyInt(<<"3">>)
Sab == PyStr(<<"a", "b">>)
Sc == PyStr(<<"c">>)

\* The arguments tried: [], [1], ['ab'], [1, 'ab', 2], [[1], 2],
\* [[[1], 2], 3], [1, [2, [3, 'ab']], 'c'], [[], [[]]], [None, [1, ['c']]],
\* [[1, 2], [3, ['ab', 'c']], 1], [[1, [2]], [[3]]],
\* ['ab', ['c', [1, None], 'ab'], 2], [[[[1]], 2], 'c', 3], 'ab', '', 1 and
\* None.
FlattenInputs ==
    << EmptyList,
       PyList(<<I1>>),
       PyList(<<Sab>>),
       PyList(<<I1, Sab, I2>>),
       PyList(<<PyList(<<I1>>), I2>>),
       PyList(<<PyList(<<PyList(<<I1>>), I2>>), I3>>),
       PyList(<<I1, PyList(<<I2, PyList(<<I3, Sab>>)>>), Sc>>),
       PyList(<<EmptyList, PyList(<<EmptyList>>)>>),
       PyList(<<None, PyList(<<I1, PyList(<<Sc>>)>>)>>),
       PyList(<<PyList(<<I1, I2>>), PyList(<<I3, PyList(<<Sab, Sc>>)>>), I1>>),
       PyList(<<PyList(<<I1, PyList(<<I2>>)>>), PyList(<<PyList(<<I3>>)>>)>>),
       PyList(<<Sab, PyList(<<Sc, PyList(<<I1, None>>), Sab>>), I2>>),
       PyList(<<PyList(<<PyList(<<PyList(<<I1>>)>>), I2>>), Sc, I3>>),
       Sab,
       PyStr(<<>>),
       I1,
       None >>

Iterable(v) == Tag(v) \in {"list", "str"}

\* iter(value): a list produces its elements, a string its characters as
\* strings of length one.
Iter(v) ==
    IF Tag(v) = "str"
    THEN [i \in 1..Len(Payload(v)) |-> PyStr(<<Payload(v)[i]>>)]
    ELSE Payload(v)

\* A queue in place of the stack: the oldest suspended iterator comes back.
PopOldest(stack) == [iterator |-> Head(stack), stack |-> Tail(stack)]

\* stack.pop()
Pop(stack) ==
    [iterator |-> stack[Len(stack)], stack |-> SubSeq(stack, 1, Len(stack) - 1)]

\* The first next() on flatten(iterable) runs
\* iterator, sentinel, stack = iter(iterable), object(), []
\* which raises TypeError for an argument that is not iterable.
FlattenCall(i) ==
    /\ fl = FlattenIdle
    /\ LET v == FlattenInputs[i]
       IN  fl' = IF Iterable(v)
                 THEN [fl EXCEPT !.pc = "next", !.input = v, !.iterator = Iter(v)]
                 ELSE [fl EXCEPT !.pc = "done", !.input = v, !.raised = "TypeError"]
    /\ FlattenFrame

\* value is sentinel and the stack is empty: break
Exhausted ==
    /\ fl.pc = "next"
    /\ fl.iterator = <<>>
    /\ fl.stack = <<>>
    /\ fl' = [fl EXCEPT !.pc = "done"]
    /\ FlattenFrame

\* value is sentinel: iterator = stack.pop()
Resume ==
    /\ fl.pc = "next"
    /\ fl.iterator = <<>>
    /\ fl.stack # <<>>
    /\ fl' = [fl EXCEPT !.iterator = Pop(fl.stack).iterator,
                        !.stack = Pop(fl.stack).stack]
    /\ FlattenFrame

\* isinstance(value, str): yield value
YieldStr ==
    /\ fl.pc = "next"
    /\ fl.iterator # <<>>
    /\ Tag(Head(fl.iterator)) = "str"
    /\ fl' = [fl EXCEPT !.iterator = Tail(fl.iterator),
                        !.yielded = Append(fl.yielded, Head(fl.iterator))]
    /\ FlattenFrame

\* iter(value) succeeds: stack.append(iterator); iterator = new_iterator
Descend ==
    /\ fl.pc = "next"
    /\ fl.iterator # <<>>
    /\ Tag(Head(fl.iterator)) = "list"
    /\ fl' = [fl EXCEPT !.iterator = Iter(Head(fl.iterator)),
                        !.stack = Append(fl.stack, Tail(fl.iterator))]
    /\ FlattenFrame

\* iter(value) raises TypeError: yield value
YieldLeaf ==
    /\ fl.pc = "next"
    /\ fl.iterator # <<>>
    /\ ~Iterable(Head(fl.iterator))
    /\ fl' = [fl EXCEPT !.iterator = Tail(fl.iterator),
                        !.yielded = Append(fl.yielded, Head(fl.iterator))]
    /\ FlattenFrame

FlattenInit ==
    /\ root = <<>>
    /\ calls = <<>>
    /\ lookups = <<>>
    /\ CacheIdle
    /\ RecIdle
    /\ ToolsIdle

FlattenNext ==
    \/ \E i \in 1..Len(FlattenInputs) : FlattenCall(i)
    \/ Exhausted
    \/ Resume
    \/ YieldStr
    \/ Descend
    \/ YieldLeaf

\* The consumer of the generator keeps asking for the next value.
FlattenSpec == FlattenInit /\ [][FlattenNext]_vars /\ WF_vars(FlattenNext)

(***************************************************************************)
(* Claims about generate_path.                                             *)
(***************************************************************************)
DigitVal(c) == CHOOSE d \in 0 .. 9 : DigitChars[d + 1] = c

\* root, and the separator os.path.join puts after it.
RootPrefix == IF root = <<>> \/ EndsWith(root, "/") THEN root ELSE root \o <<"/">>

\* p is RootPrefix followed by "dd/dd/dd/dd" whose eight digits, read left to
\* right as a decimal number, are n.
IsShardOf(p, n) ==
    LET k == Len(RootPrefix)
        t == SubSeq(p, k + 1, Len(p))
    IN  /\ Len(p) = k + 11
        /\ SubSeq(p, 1, k) = RootPrefix
        /\ t[3] = "/" /\ t[6] = "/" /\ t[9] = "/"
        /\ \A i \in {1, 2, 4, 5, 7, 8, 10, 11} : IsDigit(t[i])
        /\ n = DigitVal(t[1]) * 10000000 + DigitVal(t[2]) * 1000000
             + DigitVal(t[4]) * 100000 + DigitVal(t[5]) * 10000
             + DigitVal(t[7]) * 1000 + DigitVal(t[8]) * 100
             + DigitVal(t[10]) * 10 + DigitVal(t[11])

\* C1: for every id in 0..99,999,999, generate_path (either copy) returns root
\* followed by four two-digit segments whose digits, concatenated, are the
\* zero-padded 8-digit decimal form of the id.
C1_ShardIsPaddedId ==
    \A i \in 1 .. Len(calls) :
        (calls[i].id >= 0 /\ calls[i].id <= MaxId) =>
            /\ calls[i].out.raised = "none"
            /\ IsShardOf(calls[i].out.value, calls[i].id)

\* The documented example: entry 7182480 under /d gives /d/07/18/24/80.
C1_Witness ==
    \E i \in 1 .. Len(calls) :
        /\ root = <<"/", "d">>
        /\ calls[i].id = 7182480
        /\ calls[i].out.value =
             <<"/", "d", "/", "0", "7", "/", "1", "8", "/", "2", "4", "/", "8", "0">>

\* C2: generate_path fails with InvalidArgument, and returns no path, for every
\* id that is negative or at least 100,000,000.
C2_OutOfRangeRejected ==
    \A i \in 1 .. Len(calls) :
        (calls[i].id < 0 \/ calls[i].id > MaxId) =>
            /\ calls[i].out.raised = "InvalidArgument"
            /\ calls[i].out.value = NoValue

\* C3: for a fixed root, two calls with distinct ids that both return a path
\* return different paths.
C3_NoCollision ==
    \A i, j \in 1 .. Len(calls) :
        (/\ calls[i].id # calls[j].id
         /\ calls[i].out.raised = "none"
         /\ calls[j].out.raised = "none")
            => calls[i].out.value # calls[j].out.value

(***************************************************************************)
(* Claims about the cache.                                                 *)
(***************************************************************************)
WriterDone(i) == w[i].pc = "idle" /\ w[i].out # NotCalled
ReaderDone == r.pc = "idle" /\ r.out # NotCalled
\* The reader's open raised: an error is logged and nothing was read.
ReaderOpenFailed == r.logged /\ r.read = Never
IsValue(v) == v \notin {Never, Unknown} /\ Picklable(v)

CompletePickles == { Pickle(v) : v \in {x \in PutValues : Picklable(x)} }

\* C5: with one put and a concurrent get, and no I/O failure, the file the
\* reader loads is a complete pickle, never a truncated or partial one.
C5_NoTornRead ==
    (/\ ReaderDone
     /\ r.read \notin {Never, Garbage}
     /\ nFaults = 0
     /\ w["w2"] = IdleWriter
     /\ Picklable(w["w1"].val))
        => r.read \in CompletePickles

\* A put that failed: it logged an error or raised.
PutHasFailed(i) == WriterDone(i) /\ (w[i].logged \/ w[i].out.raised # "none")

\* C6: a put that fails (while no other put runs) returns normally, having
\* logged the error, and leaves the cache file as it was before the call.
C6_FailedPutIsNoOp ==
    (PutHasFailed("w1") /\ w["w2"] = IdleWriter) =>
        /\ w["w1"].out = Returned(None)
        /\ w["w1"].logged
        /\ FileOrAbsent(w["w1"].dest_file) = w["w1"].before

\* C7: when the cache file exists and its content cannot be unpickled, the get
\* returns None, as for a miss, and raises nothing.
C7_CorruptIsMiss ==
    (ReaderDone /\ r.read # Never /\ Unpickle(r.read).raised # "none")
        => r.out = Returned(None)

C7_Witness ==
    /\ ReaderDone
    /\ r.read = Garbage
    /\ r.out = Returned(None)
    /\ r.logged

\* C8: a get on a key no put has ever been started for returns None, raises
\* and logs nothing, reads no file, and no step of a get creates or changes a
\* directory or a file.
C8_MissIsNone ==
    /\ [](ReaderDone /\ r.expect.val = Never =>
            r.out = Returned(None) /\ ~r.logged /\ r.read = Never)
    /\ [][(nGets' # nGets \/ r'.pc # r.pc) /\ w' = w =>
            fsDirs' = fsDirs /\ fsFiles' = fsFiles]_vars

C8_Witness ==
    /\ ReaderDone
    /\ r.expect.val = Never
    /\ r.out = Returned(None)
    /\ fsDirs = {} /\ fsFiles = <<>>

\* C9: cache_dir strips exactly one trailing separator, if there is one, and
\* appends the cache suffix: for D not ending in a separator, D and D + "/"
\* give the same cache directory, D + suffix, and so a put and a get given
\* the one and the other form, and the same name, address the same file.
C9_TrailingSeparator ==
    \A i, j \in 1 .. Len(lookups) :
        LET a == lookups[i]
            b == lookups[j]
        IN  /\ ~EndsWith(a.dir, "/") => a.dest_dir = a.dir \o CacheSuffix
            /\ EndsWith(a.dir, "/") =>
                 a.dest_dir = SubSeq(a.dir, 1, Len(a.dir) - 1) \o CacheSuffix
            /\ (~EndsWith(a.dir, "/") /\ b.dir = a.dir \o <<"/">>) =>
                 /\ b.dest_dir = a.dest_dir
                 /\ a.name = b.name => b.dest_file = a.dest_file
            /\ a.dest_file = a.dest_dir \o <<"/">> \o a.name \o PickleSuffix

C9_Witness ==
    /\ Len(lookups) = 2
    /\ lookups[1].op = "put" /\ lookups[1].dir = <<"d", "/">>
    /\ lookups[2].op = "get" /\ lookups[2].dir = <<"d">>
    /\ lookups[1].name = lookups[2].name
    /\ lookups[1].dest_file = lookups[2].dest_file
    /\ lookups[2].dest_dir = <<"d">> \o CacheSuffix

\* C10: once two puts of serializable values on the same key have both
\* finished without failure, the file is the complete pickle of one of the
\* two values, and loads as that value.
C10_LastWriterWins ==
    (/\ WriterDone("w1") /\ WriterDone("w2")
     /\ w["w1"].dest_file = w["w2"].dest_file
     /\ ~w["w1"].logged /\ ~w["w2"].logged
     /\ w["w1"].out = Returned(None) /\ w["w2"].out = Returned(None))
        => LET c == fsFiles[w["w1"].dest_file]
           IN  /\ c \in {Pickle(w["w1"].val), Pickle(w["w2"].val)}
               /\ Unpickle(c) \in {Returned(w["w1"].val), Returned(w["w2"].val)}

(***************************************************************************)
(* Claims about the entries that repo_entry builds.                        *)
(***************************************************************************)
Built == DOMAIN records

\* The parameters with default None whose value is stored under their own
\* name, and those stored under entry['time'].
PlainKeys == NoneParams \ {"is_fork", "fork_of", "fork_root", "created",
                           "last_updated", "last_pushed", "data_refreshed"}
TimeKey(p) ==
    CASE p = "created" -> "repo_created"
      [] p = "last_updated" -> "repo_updated"
      [] p = "last_pushed" -> "repo_pushed"
      [] p = "data_refreshed" -> "data_refreshed"
TimeParams == {"created", "last_updated", "last_pushed", "data_refreshed"}

IsEmptyList(v) == Tag(v) = "list" /\ Payload(v) = <<>>
IsNone(v) == Tag(v) = "None"

\* C11: every field whose argument the caller omits has its unset value in
\* the entry that repo_entry returns, whatever the other arguments are: []
\* for the list fields and for 'fork', None for the others (is_visible
\* included, also when is_deleted is True), {'lcsh': []} for 'topics'.
C11_OmittedIsUnset ==
    \A e \in Built :
        LET rec == records[e]
        IN  /\ \A p \in ListFields :
                   IsOmitted(rec.args[p]) => IsEmptyList(rec.returned[p])
            /\ \A p \in PlainKeys :
                   IsOmitted(rec.args[p]) => IsNone(rec.entry[p])
            /\ \A p \in TimeParams :
                   IsOmitted(rec.args[p]) => IsNone(rec.entry.time[TimeKey(p)])
            /\ IsOmitted(rec.args["is_fork"]) => IsEmptyList(rec.entry.fork)
            /\ IsOmitted(rec.args["topics"]) =>
                   rec.entry.topics = PyDict("lcsh" :> EmptyList)

\* C12: no entry has is_deleted == True with is_visible other than False.
C12_DeletedIsInvisible ==
    \A e \in Built :
        records[e].entry.is_deleted = PyTrue =>
            records[e].entry.is_visible = PyFalse

\* A positive integer: decimal digits, the first not 0.
IsPositiveInt(v) ==
    /\ Tag(v) = "int"
    /\ Len(v) >= 2
    /\ \A i \in 2 .. Len(v) : IsDigit(v[i])
    /\ v[2] # "0"

\* C13: a call of repo_entry whose id is not a positive integer fails with
\* InvalidArgument and returns no entry.
C13_BadIdRejected ==
    \A e \in Built :
        ~IsPositiveInt(records[e].args["id"]) =>
            /\ records[e].raised = "InvalidArgument"
            /\ records[e].entry = NoValue

IsFalse(v) == Tag(v) = "bool" /\ v = PyFalse
IsTrue(v) == Tag(v) = "bool" /\ v = PyTrue
IsForkDict(v, parent, rt) ==
    /\ Tag(v) = "dict"
    /\ DOMAIN v[2] = {"parent", "root"}
    /\ v[2]["parent"] = parent
    /\ v[2]["root"] = rt

\* C14: entry['fork'] is in exactly one of three states, fixed by is_fork:
\* False when is_fork is False, [] when is_fork is not passed, and
\* {'parent': fork_of, 'root': fork_root} when is_fork is True, each of
\* parent and root None when not passed; the value False is only ever the
\* answer to a false is_fork and [] only ever the answer to an unknown one.
C14_ForkTriState ==
    \A e \in Built :
        LET rec == records[e]
            is_fork == Arg(rec.args, "is_fork")
            fork == rec.entry.fork
        IN  /\ IsFalse(is_fork) => IsFalse(fork)
            /\ IsOmitted(rec.args["is_fork"]) => IsEmptyList(fork)
            /\ IsTrue(is_fork) =>
                   IsForkDict(fork, Arg(rec.args, "fork_of"),
                              Arg(rec.args, "fork_root"))
            /\ IsFalse(fork) \/ IsEmptyList(fork) \/ Tag(fork) = "dict"
            /\ IsFalse(fork) => EqFalse(is_fork)
            /\ IsEmptyList(fork) => IsNone(is_fork)
            /\ Tag(fork) = "dict" => IsTrue(is_fork)

\* The three states side by side: a fork whose root is not known next to an
\* entry of unknown state, and a known non-fork next to one of unknown state.
C14_Witness ==
    /\ Built = RecordNames
    /\ IsEmptyList(records["r2"].entry.fork)
    /\ \/ /\ IsTrue(records["r1"].args["is_fork"])
          /\ IsForkDict(records["r1"].entry.fork, PyInt(<<"7">>), None)
       \/ /\ IsFalse(records["r1"].args["is_fork"])
          /\ IsFalse(records["r1"].entry.fork)

\* C20: a list field that two calls of repo_entry both omit is not shared:
\* as long as an entry's own field has not been appended to, it equals [],
\* whatever was appended to the field of other entries, before or after the
\* entry was built.
C20_NoSharedDefaults ==
    \A e \in Built, p \in ListFields :
        (IsOmitted(records[e].args[p]) /\ p \notin RangeOf(records[e].appended))
            => IsEmptyList(Deref(records[e].entry[p], defaults))

(***************************************************************************)
(* Claims about the helpers and accessors.                                 *)
(***************************************************************************)
IsLangDictOf(d, n) ==
    /\ Tag(d) = "dict"
    /\ DOMAIN d[2] = {"name"}
    /\ d[2]["name"] = n

\* A list of names, and a list in the stored form [{'name': n}, ...].
IsNameList(v) ==
    /\ Tag(v) = "list"
    /\ \A i \in 1 .. Len(Payload(v)) : Tag(Payload(v)[i]) = "str"
IsNormalized(v) ==
    /\ Tag(v) = "list"
    /\ \A i \in 1 .. Len(Payload(v)) :
           HasName(Payload(v)[i]) /\ Tag(Payload(v)[i][2]["name"]) = "str"

\* C15: make_languages leaves a list that is already in the stored form as
\* it is, and applying it to its own result changes nothing.
C15_Idempotent ==
    ecall.fn = "make_languages" =>
        /\ IsNormalized(ecall.arg) => ecall.out = Returned(ecall.arg)
        /\ make_languages(ecall.out.value) = ecall.out

\* C16: make_languages(n) is [{'name': n}] for a single name n, and for a
\* list of names it is the list of their {'name': n}, same length and order.
C16_SingleOrSequence ==
    ecall.fn = "make_languages" =>
        LET a == ecall.arg
            o == ecall.out
        IN  /\ o.raised = "none"
            /\ Tag(o.value) = "list"
            /\ Tag(a) = "str" =>
                   /\ Len(Payload(o.value)) = 1
                   /\ IsLangDictOf(Payload(o.value)[1], a)
            /\ IsNameList(a) =>
                   /\ Len(Payload(o.value)) = Len(Payload(a))
                   /\ \A i \in 1 .. Len(Payload(a)) :
                          IsLangDictOf(Payload(o.value)[i], Payload(a)[i])

C16_Witness ==
    /\ ecall.fn = "make_languages"
    /\ IsNameList(ecall.arg)
    /\ Len(Payload(ecall.arg)) = 2
    /\ Len(Payload(ecall.out.value)) = 2

\* C17: e_languages returns [] when entry['languages'] is None or [], -1
\* when it is -1, and otherwise the names of the {'name': n} of the list,
\* same length and order; the entry stays as repo_entry built it.
C17_LanguagesOf ==
    ecall.fn = "e_languages" =>
        LET l == Deref(TheEntry.languages, defaults)
            o == ecall.out
        IN  /\ o.raised = "none"
            /\ (IsNone(l) \/ IsEmptyList(l)) => IsEmptyList(o.value)
            /\ (Tag(l) = "int" /\ l = Minus1) =>
                   (Tag(o.value) = "int" /\ o.value = Minus1)
            /\ (IsNormalized(l) /\ ~IsEmptyList(l)) =>
                   /\ Tag(o.value) = "list"
                   /\ Len(o.value) = Len(l)
                   /\ \A i \in 1 .. Len(Payload(l)) :
                          Payload(o.value)[i] = Payload(l)[i][2]["name"]
            /\ records["r1"] = BuiltRecord(records["r1"].args, defaults)

C17_Witness ==
    /\ ecall.fn = "e_languages"
    /\ Tag(TheEntry.languages) = "int"
    /\ TheEntry.languages = Minus1
    /\ Tag(ecall.out.value) = "int"
    /\ ecall.out.value = Minus1

Encodable(c, enc) ==
    c \notin NonAscii \/ enc = "utf-8" \/ (enc = "latin-1" /\ c \in Latin1)
\* A string with the characters that enc cannot encode replaced.
Replaced(s, enc) ==
    [i \in 1 .. Len(s) |-> IF Encodable(s[i], enc) THEN s[i] ELSE "?"]

\* C19: on an entry whose owner and name are set, e_summary fails for no
\* charset of the output and no character: it returns "owner/name (#id)"
\* with the characters that the charset cannot encode replaced.
C19_SummaryNeverFails ==
    (/\ ecall.fn = "e_summary"
     /\ Tag(TheEntry.owner) = "str"
     /\ Tag(TheEntry.name) = "str") =>
        /\ ecall.out.raised = "none"
        /\ ecall.out.value =
               PyStr(Replaced(Payload(TheEntry.owner) \o <<"/">>
                              \o Payload(TheEntry.name) \o <<" ", "(", "#">>
                              \o StrOf(TheEntry._id) \o <<")">>, ecall.enc))

(***************************************************************************)
(* Claims about repeated puts and about the frame of the cache.            *)
(***************************************************************************)
\* A put that ran from call to return with no other put on its file, and
\* met no failure.
SuccessfulPut(i) ==
    /\ WriterDone(i)
    /\ w[i].alone
    /\ w[i].out = Returned(None)
    /\ ~w[i].logged

\* Both puts of the run succeeded, one after the other, on file f.
TwoPutsOn(f) ==
    /\ SuccessfulPut("w1") /\ SuccessfulPut("w2")
    /\ w["w1"].dest_file = f /\ w["w2"].dest_file = f

PutsAndGet ==
    /\ \A i \in Writers :
           (WriterDone(i) /\ w[i].alone /\ Picklable(w[i].val) /\ nFaults = 0)
               => SuccessfulPut(i)
    /\ \A f \in CacheFiles :
           TwoPutsOn(f) =>
               /\ fsFiles[f] = Pickle(w["w2"].val)
               /\ stable[f] = [val |-> w["w2"].val, ok |-> TRUE]

\* C21 as stated: a put on an existing cache directory or cache file is no
\* error; after two successful puts on one key the file holds the second
\* value's pickle and nothing else, also when it is the shorter one; and a
\* get that follows successful puts returns the value of the latest of them.
C21_LastPutWinsAnyGet ==
    /\ PutsAndGet
    /\ (ReaderDone /\ r.expect.ok /\ TwoPutsOn(r.cache)) =>
           r.out = Returned(r.expect.val)

\* C21, amended: the same, for a get that meets no I/O failure of its own.
C21_LastPutWins ==
    /\ PutsAndGet
    /\ (ReaderDone /\ r.expect.ok /\ TwoPutsOn(r.cache) /\ ~ReaderOpenFailed) =>
           r.out = Returned(r.expect.val)

\* [1, 2] is put, then 1 on the same key, then the get returns 1.
C21_Witness ==
    /\ TwoPutsOn(r.cache)
    /\ w["w1"].val = <<"list", "1", "2">>
    /\ w["w2"].val = <<"int", "1">>
    /\ w["w2"].before = Pickle(<<"list", "1", "2">>)
    /\ ReaderDone
    /\ r.expect = [val |-> <<"int", "1">>, ok |-> TRUE]
    /\ r.out = Returned(<<"int", "1">>)

\* What cached_value returns for cache file f in the present state of the
\* file system, when its own open and read meet no I/O failure.
GetResult(f) ==
    IF f \notin DOMAIN fsFiles THEN cached_value_miss
    ELSE LET got == Unpickle(fsFiles[f])
         IN  IF got.raised = "none" THEN got
             ELSE IF IsException(got.raised) THEN Returned(None)
             ELSE got

\* C22: a step changes cache file f, and with it what a get of f returns
\* (GetResult(f) depends on nothing but the file), only if it is a step of a
\* put on f itself: a put on another file leaves f as it was, whether there
\* or absent, and so does every step of a get.
C22_Frame ==
    [][\A f \in CacheFiles :
          FileOrAbsent(f)' # FileOrAbsent(f) =>
              \E i \in Writers : w'[i] # w[i] /\ w'[i].dest_file = f]_vars

\* Two keys, each holding the value put on it, the second put after the
\* first, and a get of the first key after both.
C22_Witness ==
    /\ SuccessfulPut("w1") /\ SuccessfulPut("w2")
    /\ w["w1"].dest_file # w["w2"].dest_file
    /\ w["w1"].val # w["w2"].val
    /\ w["w2"].before = Absent
    /\ GetResult(w["w1"].dest_file) = Returned(w["w1"].val)
    /\ GetResult(w["w2"].dest_file) = Returned(w["w2"].val)
    /\ ReaderDone
    /\ r.cache = w["w1"].dest_file
    /\ r.out = Returned(w["w1"].val)

\* C23: for every root and every repo_id - an int in or out of the 8-digit
\* range, a decimal string, or a value that int() rejects - the copy of
\* generate_path in casics.py and the one in path.py return the same path
\* or raise the same exception.
C23_CopiesAgree ==
    \A i \in 1 .. Len(calls) :
        /\ calls[i].casics = calls[i].path
        /\ calls[i].casics.raised = "none" <=> int(calls[i].id).raised = "none"

\* Both copies gave the 9-digit string 100000001 the path of 10000000, and
\* both raised ValueError for 'abc'.
C23_Witness ==
    /\ Len(calls) = 2
    /\ root = <<"/", "d">>
    /\ calls[1].id = PyStr(<<"1", "0", "0", "0", "0", "0", "0", "0", "1">>)
    /\ calls[1].path = Returned(<<"/", "d", "/", "1", "0", "/", "0", "0", "/",
                                  "0", "0", "/", "0", "0">>)
    /\ calls[2].id = PyStr(<<"a", "b", "c">>)
    /\ calls[2].casics = Raised("ValueError")
    /\ calls[2].path = Raised("ValueError")

(***************************************************************************)
(* Claims about shell_cmd.                                                 *)
(***************************************************************************)
ShellReturned == sh.pc = "done" /\ sh.out.raised = "none"

\* After communicate(): the child ended by itself and nothing was killed, or
\* the timer marked the timeout and killed it.
ExitedOrKilled ==
    sh.pc \in {"cancel", "return"} \/ ShellReturned =>
        \/ sh.proc = "exited" /\ sh.signalled # "child"
        \/ sh.proc = "killed" /\ sh.timeout /\ sh.signalled = "child"

\* Once the call has returned, no step of the timer signals or changes a
\* process.
TimerSpent ==
    [][sh.pc = "done" => sh'.proc = sh.proc /\ sh'.signalled = sh.signalled]_vars

\* C24: a call of shell_cmd that has started its child always returns
\* (returncode, stdout, stderr) in the end: the child ends by itself and
\* nothing is killed, or the timer marks the timeout and kills it, after
\* which communicate() completes; and after the return the timer kills
\* nothing any more.
C24_AlwaysReturns ==
    /\ (sh.pc = "communicate") ~> ShellReturned
    /\ []ExitedOrKilled
    /\ TimerSpent

(***************************************************************************)
(* Claims about flatten.                                                   *)
(***************************************************************************)
RECURSIVE Leaves(_), LeavesOfAll(_)
\* The leaves of a nesting, left to right and depth first: a list stands for
\* the leaves of its elements, every other value for itself.
Leaves(v) == IF Tag(v) = "list" THEN LeavesOfAll(Payload(v)) ELSE <<v>>

LeavesOfAll(vs) ==
    IF vs = <<>> THEN <<>> ELSE Leaves(Head(vs)) \o LeavesOfAll(Tail(vs))

FlattenDone(v) ==
    /\ fl.raised = "none"
    /\ fl.yielded = Leaves(v)
    /\ fl.stack = <<>>

\* As claimed for every nesting of iterables, a string given as the argument
\* itself included: flatten ends, has yielded exactly the leaves in order,
\* every string whole, and its stack is empty.
C25_FlattenAnyNesting ==
    /\ [](fl.pc = "done" /\ Iterable(fl.input) => FlattenDone(fl.input))
    /\ (fl.pc = "next") ~> (fl.pc = "done")

\* C25: on every finite nesting of iterables whose outermost value is not
\* itself a string, flatten ends, has yielded exactly the leaves of the
\* nesting - every value that is not iterable and every string, each string
\* whole - in left-to-right depth-first order, and its stack of suspended
\* iterators is empty at the end.
C25_Flatten ==
    /\ [](fl.pc = "done" /\ Tag(fl.input) = "list" => FlattenDone(fl.input))
    /\ (fl.pc = "next") ~> (fl.pc = "done")

\* flatten([1, [2, [3, 'ab']], 'c']) has ended with 1, 2, 3, 'ab', 'c'.
C25_Witness ==
    /\ fl.pc = "done"
    /\ fl.input = FlattenInputs[7]
    /\ fl.yielded = <<I1, I2, I3, Sab, Sc>>
    /\ fl.stack = <<>>
====
